---- MODULE Spec2Model ----
(***************************************************************************)
(* The fingerprinted ("blockchain") migration runner of scripts/migrate.js *)
(* (class BlockchainMigration): discovery of the script files, integrity   *)
(* verification against the ledger table blockchain_migrations, and the    *)
(* transactional apply loop, run by one or two runner processes against    *)
(* one PostgreSQL datastore (READ COMMITTED); and the reset utility of     *)
(* scripts/reset-dev-db.js, run against the same datastore.                *)
(***************************************************************************)
EXTENDS Integers, Sequences, FiniteSets, TLC

(***************************************************************************)
(* Bounds of the model.                                                    *)
(***************************************************************************)
\* Number of command invocations (run / verify / status) in one behaviour.
MaxRuns == 2
\* Number of changes made to the script files by the developers.
MaxEdits == 1
\* Number of invocations of the reset utility in one behaviour.
MaxResets == 1

(***************************************************************************)
(* Values.                                                                 *)
(***************************************************************************)
\* SQL NULL and a non-NULL column value.
Null == <<>>
Some(v) == <<v>>

\* The value of a path that holds no file, and of one that holds a file.
Absent == <<>>
File(bytes) == <<bytes>>

\* File contents, as byte sequences: two valid scripts and one whose
\* execution the datastore rejects.
BytesA == <<97>>
BytesB == <<98>>
BytesX == <<120>>
\* Two files of one byte each that is no UTF-8 sequence (0xFE, 0xFF).
BytesFE == <<254>>
BytesFF == <<255>>
Contents == {BytesA, BytesB, BytesX}

\* File names, as sequences of characters.
F001a == <<"0", "0", "1", "-", "a", ".", "s", "q", "l">>
F002b == <<"0", "0", "2", "-", "b", ".", "s", "q", "l">>
F001c == <<"0", "0", "1", "-", "c", ".", "s", "q", "l">>
F001f == <<"0", "0", "1", "-", "f", ".", "s", "q", "l">>
F002g == <<"0", "0", "2", "-", "g", ".", "s", "q", "l">>

\* The category directories and their priorities, in the order of the code.
dirs == << [name |-> "001-schema", priority |-> 1],
           [name |-> "002-functions", priority |-> 2],
           [name |-> "003-seed-data", priority |-> 3] >>

\* The places a script file can be at: two schema scripts, a seed-data script,
\* a second seed-data script that has both the file name of the first
\* schema script and the 3-digit prefix of the other seed-data script, and a
\* functions script.
P1 == [dir |-> "001-schema", file |-> F001a]
P2 == [dir |-> "001-schema", file |-> F002b]
P3 == [dir |-> "003-seed-data", file |-> F001c]
P4 == [dir |-> "003-seed-data", file |-> F001a]
P5 == [dir |-> "002-functions", file |-> F001f]
P6 == [dir |-> "003-seed-data", file |-> F002g]
Paths == {P1, P2, P3, P4, P5, P6}

Runners == {1, 2}
Commands == {"run", "verify", "status"}
\* An argument the switch of the command line has no case for.
OtherCommands == {"create"}

(***************************************************************************)
(* Pure functions of the runner.                                           *)
(***************************************************************************)
\* UTF-16 code unit of a character (the order String.prototype.sort uses).
CharCode(c) ==
    CASE c = "-" -> 45 [] c = "." -> 46
      [] c = "0" -> 48 [] c = "1" -> 49 [] c = "2" -> 50 [] c = "3" -> 51
      [] c = "4" -> 52 [] c = "5" -> 53 [] c = "6" -> 54 [] c = "7" -> 55
      [] c = "8" -> 56 [] c = "9" -> 57
      [] c = "a" -> 97 [] c = "b" -> 98 [] c = "c" -> 99 [] c = "f" -> 102
      [] c = "g" -> 103
      [] c = "l" -> 108
      [] c = "q" -> 113 [] c = "s" -> 115

IsDigit(c) == CharCode(c) >= 48 /\ CharCode(c) <= 57

\* f.endsWith('.sql')
EndsWithSql(f) ==
    /\ Len(f) >= 4
    /\ SubSeq(f, Len(f) - 3, Len(f)) = <<".", "s", "q", "l">>

\* file.match(/^(\d{3})-(.+)\.sql$/): whether the name matches.
MatchesPattern(f) ==
    /\ Len(f) >= 9
    /\ IsDigit(f[1]) /\ IsDigit(f[2]) /\ IsDigit(f[3])
    /\ f[4] = "-"
    /\ EndsWithSql(f)

\* parseInt(match[1]) of a matching name.
ParsedNumber(f) ==
    100 * (CharCode(f[1]) - 48) + 10 * (CharCode(f[2]) - 48) + (CharCode(f[3]) - 48)

\* a < b in the lexicographic order of code units.
RECURSIVE StrLess(_, _)
StrLess(a, b) ==
    IF b = <<>> THEN FALSE
    ELSE IF a = <<>> THEN TRUE
    ELSE IF CharCode(Head(a)) # CharCode(Head(b))
         THEN CharCode(Head(a)) < CharCode(Head(b))
         ELSE StrLess(Tail(a), Tail(b))

\* Array.prototype.sort() of a set of distinct names.
RECURSIVE SortNames(_)
SortNames(S) ==
    IF S = {} THEN <<>>
    ELSE LET m == CHOOSE x \in S : \A y \in S \ {x} : StrLess(x, y)
         IN <<m>> \o SortNames(S \ {m})

\* fs.readFileSync(path, 'utf8'): a byte that is no valid UTF-8 sequence of
\* its own decodes to U+FFFD.
Decode(bytes) == [i \in 1..Len(bytes) |-> IF bytes[i] >= 128 THEN 65533 ELSE bytes[i]]

\* crypto.createHash('sha256').update(content, 'utf8').digest('hex'): the
\* digest of the UTF-8 encoding of the decoded text, taken as injective.
calculateHash(content) == <<"sha256", content>>

\* The error the datastore raises when it executes a script body, or Null.
ExecError(content) ==
    IF content = Decode(BytesX) THEN Some("syntax error") ELSE Null

(***************************************************************************)
(* The script files and the ledger table.                                  *)
(***************************************************************************)
\* fs.existsSync(path)
Exists(fsys, p) == p \in Paths /\ fsys[p] # Absent

\* fs.readdirSync(dirPath).filter(f => f.endsWith('.sql')).sort()
SqlFilesOf(fsys, d) ==
    SortNames({p.file : p \in {q \in Paths : q.dir = d /\ Exists(fsys, q)
                                                     /\ EndsWithSql(q.file)}})

\* The entry discovery makes for one file of a category.
MigrationOf(fsys, dir, file) ==
    LET content == Decode(fsys[[dir |-> dir.name, file |-> file]][1])
    IN [number   |-> dir.priority * 1000 + ParsedNumber(file),
        filename |-> file,
        category |-> dir.name,
        content  |-> content,
        hash     |-> calculateHash(content)]

\* The inner loop of discovery: the entries of the sorted files of one
\* category, without the names the pattern rejects.
RECURSIVE DiscoverFiles(_, _, _)
DiscoverFiles(fsys, dir, files) ==
    IF files = <<>> THEN <<>>
    ELSE (IF MatchesPattern(Head(files))
          THEN <<MigrationOf(fsys, dir, Head(files))>>
          ELSE <<>>) \o DiscoverFiles(fsys, dir, Tail(files))

\* Array.prototype.sort((a, b) => a.number - b.number), which is stable.
RECURSIVE InsertByNumber(_, _)
InsertByNumber(sorted, m) ==
    IF sorted = <<>> THEN <<m>>
    ELSE IF Head(sorted).number <= m.number
         THEN <<Head(sorted)>> \o InsertByNumber(Tail(sorted), m)
         ELSE <<m>> \o sorted

\* SortByNumber with the comparison (a, b) => b.number - a.number, for a
\* list in the order of the directories.
SortDescending(ms) == [i \in 1..Len(ms) |-> ms[Len(ms) + 1 - i]]

RECURSIVE SortByNumber(_)
SortByNumber(ms) ==
    IF ms = <<>> THEN <<>>
    ELSE InsertByNumber(SortByNumber(SubSeq(ms, 1, Len(ms) - 1)), ms[Len(ms)])

discoverMigrations(fsys) ==
    SortByNumber(DiscoverFiles(fsys, dirs[1], SqlFilesOf(fsys, dirs[1].name))
              \o DiscoverFiles(fsys, dirs[2], SqlFilesOf(fsys, dirs[2].name))
              \o DiscoverFiles(fsys, dirs[3], SqlFilesOf(fsys, dirs[3].name)))

\* The path of the first category directory that holds the file name, or Null.
RECURSIVE FindFrom(_, _, _)
FindFrom(fsys, filename, i) ==
    IF i > Len(dirs) THEN Null
    ELSE IF Exists(fsys, [dir |-> dirs[i].name, file |-> filename])
         THEN Some([dir |-> dirs[i].name, file |-> filename])
         ELSE FindFrom(fsys, filename, i + 1)

findMigrationFile(fsys, filename) == FindFrom(fsys, filename, 1)

\* A row of blockchain_migrations (id and executed_at are left out).
Row(num, filename, hash, status, time, error) ==
    [num |-> num, filename |-> filename, hash |-> hash,
     status |-> status, time |-> time, error |-> error]

\* ORDER BY migration_number of a sequence of rows with distinct numbers.
RECURSIVE OrderByNumber(_)
OrderByNumber(rows) ==
    IF rows = <<>> THEN <<>>
    ELSE LET i == CHOOSE k \in 1..Len(rows) :
                      \A j \in 1..Len(rows) : rows[k].num <= rows[j].num
         IN <<rows[i]>> \o OrderByNumber(SubSeq(rows, 1, i - 1)
                                          \o SubSeq(rows, i + 1, Len(rows)))

IsCompleted(row) == row.status = "completed"

\* SELECT ... WHERE status = 'completed' ORDER BY migration_number
getAppliedMigrations(table) == OrderByNumber(SelectSeq(table, IsCompleted))

\* RowIntact without the comparison of the hashes.
RowIntactFileOnly(fsys, migration) ==
    findMigrationFile(fsys, migration.filename) # Null

\* RowIntact with a loop that goes on to the next row when no file is found,
\* without clearing integrityValid.
RowIntactIfPresent(fsys, migration) ==
    LET filePath == findMigrationFile(fsys, migration.filename)
    IN \/ filePath = Null
       \/ calculateHash(Decode(fsys[filePath[1]][1])) = migration.hash

\* RowIntact that compares the text of the file, not its hash, with the
\* recorded hash.
RowIntactUnhashed(fsys, migration) ==
    LET filePath == findMigrationFile(fsys, migration.filename)
    IN /\ filePath # Null
       /\ Decode(fsys[filePath[1]][1]) = migration.hash

\* Whether the file of one applied row is there with the recorded hash.
RowIntact(fsys, migration) ==
    LET filePath == findMigrationFile(fsys, migration.filename)
    IN /\ filePath # Null
       /\ calculateHash(Decode(fsys[filePath[1]][1])) = migration.hash

\* The loop of verifyMigrationIntegrity over the applied rows: the final
\* value of integrityValid.
RECURSIVE VerifyLoop(_, _, _)
VerifyLoop(fsys, applied, integrityValid) ==
    IF applied = <<>> THEN integrityValid
    ELSE VerifyLoop(fsys, Tail(applied),
                    IF RowIntact(fsys, Head(applied)) THEN integrityValid ELSE FALSE)

\* VerifyErrors with a loop that ends at the first row it reports.
RECURSIVE VerifyErrorsFirstOnly(_, _)
VerifyErrorsFirstOnly(fsys, applied) ==
    IF applied = <<>> THEN <<>>
    ELSE IF RowIntact(fsys, Head(applied))
         THEN VerifyErrorsFirstOnly(fsys, Tail(applied))
         ELSE <<Head(applied).num>>

\* The loop of verifyMigrationIntegrity over the applied rows: the rows it
\* writes to console.error, as missing or as a hash mismatch, by number.
RECURSIVE VerifyErrors(_, _)
VerifyErrors(fsys, applied) ==
    IF applied = <<>> THEN <<>>
    ELSE (IF RowIntact(fsys, Head(applied)) THEN <<>> ELSE <<Head(applied).num>>)
         \o VerifyErrors(fsys, Tail(applied))

\* TRUE when verifyMigrationIntegrity returns, FALSE when it throws.
verifyMigrationIntegrity(table, fsys) ==
    VerifyLoop(fsys, getAppliedMigrations(table), TRUE)

\* Whether the table holds a row of this migration number.
HasRow(table, n) == \E i \in 1..Len(table) : table[i].num = n

\* UpsertFailed with DO UPDATE SET filename, hash, status, error_message.
UpsertFailedOverwrite(table, m, message) ==
    IF HasRow(table, m.number)
    THEN [i \in 1..Len(table) |->
             IF table[i].num = m.number
             THEN [table[i] EXCEPT !.filename = m.filename, !.hash = m.hash,
                                   !.status = "failed", !.error = Some(message)]
             ELSE table[i]]
    ELSE Append(table, Row(m.number, m.filename, m.hash, "failed", Null, Some(message)))

\* INSERT ... ON CONFLICT (migration_number) DO UPDATE SET status, error_message
UpsertFailed(table, m, message) ==
    IF HasRow(table, m.number)
    THEN [i \in 1..Len(table) |->
             IF table[i].num = m.number
             THEN [table[i] EXCEPT !.status = "failed", !.error = Some(message)]
             ELSE table[i]]
    ELSE Append(table, Row(m.number, m.filename, m.hash, "failed", Null, Some(message)))

(***************************************************************************)
(* State.                                                                  *)
(***************************************************************************)
VARIABLES
    fs,          \* runner -> the script files of its checkout: path -> Absent or File(bytes)
    tableReady,  \* whether blockchain_migrations exists
    ledger,      \* the committed rows of blockchain_migrations, as inserted
    effects,     \* path -> how many times the body's effects were committed
    pc,          \* runner -> the statement it is at
    cmd,         \* runner -> the command of its process
    err,         \* runner -> the message of the error it caught, or Null
    exitCode,    \* runner -> the exit code of its process, or Null
    migrations,  \* runner -> what discoverMigrations returned
    pending,     \* runner -> the migrations run() is to apply
    idx,         \* runner -> position of the apply loop in pending
    tx,          \* runner -> its client's transaction
    executed,    \* runner -> the scripts whose body it sent in this process
    start,       \* runner -> the ledger, effects and edit count its process began with
    prev,        \* runner -> the outcome of its previous process
    runs,        \* processes begun so far
    edits,       \* changes made to the script files so far
    killed,      \* runner -> where its process was killed, if it was
    dbUp,        \* whether the datastore accepts connections and statements
    nodeEnv,     \* process.env.NODE_ENV
    reset,       \* the process of the reset utility
    reported,    \* runner -> the rows its integrity check wrote as failing
    conn         \* runner -> the clients it holds of the pool

vars == <<fs, tableReady, ledger, effects, pc, cmd, err, exitCode, migrations,
          pending, idx, tx, executed, start, prev, runs, edits,
          killed, dbUp, nodeEnv, reset, reported, conn>>

NoTx == [open |-> FALSE, rows |-> <<>>, eff |-> {}]
NotKilled == [at |-> "none", script |-> Null, row |-> FALSE]
NoProcess == [cmd |-> "none", exitCode |-> Null, edits |-> 0, killed |-> NotKilled,
              unrecorded |-> Null]

\* The clients of the pool a runner holds: how many, and whether one was
\* released with its transaction open.
NoClient == [held |-> 0, leftOpen |-> FALSE]

\* pool.connect()
Acquire(c) == [c EXCEPT !.held = @ + 1]

\* Release for a finally block that does not release the client.
ReleaseNever(c, t) == c

\* finally: client.release(), with the client's transaction as it is then.
Release(c, t) == [held |-> c.held - 1, leftOpen |-> c.leftOpen \/ t.open]

\* The values of NODE_ENV: not set, or set to one of these strings.
Unset == <<>>
NodeEnvs == {Unset, Some("development"), Some("production")}

\* The reset utility before it is invoked: no prompt shown, no statement
\* sent, nothing dropped.
NoReset == [pc |-> "idle", exitCode |-> Null, answer |-> Null, prompts |-> 0,
            statements |-> 0, drops |-> 0, count |-> 0, runs |-> 0]

\* The file values without BytesB: what a checkout holds at first.
FirstValues == {Absent, File(BytesA), File(BytesX)}

\* The checkout of a lone runner at first: the two schema scripts are there,
\* each seed-data script is there or not.
InitFiles ==
    {f \in [Paths -> FirstValues] :
        f[P1] # Absent /\ f[P2] # Absent /\ f[P5] = Absent /\ f[P6] = Absent}

\* The checkouts of two concurrent runners (two deploy pipelines): the first
\* schema script is there, the seed-data scripts are valid or not there.
ConcFiles ==
    {f \in [Paths -> FirstValues] :
        /\ f[P1] # Absent /\ f[P2] = Absent /\ f[P5] = Absent /\ f[P6] = Absent
        /\ f[P3] # File(BytesX) /\ f[P4] # File(BytesX)}

\* The checkout of a developer who uses the reset utility: a valid schema
\* script, and a functions script and a seed-data script that are valid or
\* not there.
DevFiles ==
    {f \in [Paths -> FirstValues] :
        /\ f[P1] = File(BytesA) /\ f[P2] = Absent /\ f[P4] = Absent /\ f[P6] = Absent
        /\ f[P3] # File(BytesX) /\ f[P5] # File(BytesX)}

\* The state before any process has run: no ledger table, no effects.
InitRest ==
    /\ tableReady = FALSE
    /\ ledger = <<>>
    /\ effects = [p \in Paths |-> 0]
    /\ pc = [r \in Runners |-> "idle"]
    /\ cmd = [r \in Runners |-> "none"]
    /\ err = [r \in Runners |-> Null]
    /\ exitCode = [r \in Runners |-> Null]
    /\ migrations = [r \in Runners |-> <<>>]
    /\ pending = [r \in Runners |-> <<>>]
    /\ idx = [r \in Runners |-> 1]
    /\ tx = [r \in Runners |-> NoTx]
    /\ executed = [r \in Runners |-> <<>>]
    /\ start = [r \in Runners |-> [ledger |-> <<>>, edits |-> 0,
                                    effects |-> [p \in Paths |-> 0]]]
    /\ prev = [r \in Runners |-> NoProcess]
    /\ runs = 0
    /\ edits = 0
    /\ killed = [r \in Runners |-> NotKilled]
    /\ dbUp = TRUE
    /\ reset = NoReset
    /\ reported = [r \in Runners |-> <<>>]
    /\ conn = [r \in Runners |-> NoClient]

\* Two runners, each with a checkout of its own.
Init ==
    /\ fs \in [Runners -> ConcFiles]
    /\ nodeEnv = Some("production")
    /\ InitRest

\* One runner (the other never runs, its checkout is not read).
InitSeq ==
    /\ \E f \in InitFiles : fs = [r \in Runners |-> f]
    /\ nodeEnv = Some("production")
    /\ InitRest

\* One runner with any set of script files over the three categories.
InitAny ==
    /\ \E f \in [Paths -> FirstValues] : fs = [r \in Runners |-> f]
    /\ nodeEnv = Some("production")
    /\ InitRest

\* One runner and the reset utility, in any environment.
InitDev ==
    /\ \E f \in DevFiles : fs = [r \in Runners |-> f]
    /\ nodeEnv \in NodeEnvs
    /\ InitRest

\* The migration the apply loop of runner r is at.
Current(r) == pending[r][idx[r]]
PathOf(m) == [dir |-> m.category, file |-> m.filename]

\* Another client holds an uncommitted row of this migration number: an
\* INSERT of the same number waits for that transaction to end.
HeldByOther(r, n) ==
    \E q \in Runners \ {r} : tx[q].open /\ HasRow(tx[q].rows, n)

(***************************************************************************)
(* The command processes.                                                  *)
(***************************************************************************)
\* The utility of reset-dev-db.js is between its start and its end.
Resetting == reset.pc \notin {"idle", "exited"}

\* The script whose execution error the ended process of runner r threw
\* while the ledger kept no row of it, or Null.
Unrecorded(r) ==
    IF /\ pc[r] = "exited" /\ pending[r] # <<>> /\ executed[r] # <<>>
       /\ executed[r][Len(executed[r])] = PathOf(Current(r))
       /\ ExecError(Current(r).content) # Null
       /\ ~HasRow(ledger, Current(r).number)
    THEN Some(PathOf(Current(r)))
    ELSE Null

\* A process is started with a command (process.argv[2] || 'run'), while no
\* reset is under way.
Start(r, c) ==
    /\ pc[r] \in {"idle", "exited", "crashed"}
    /\ ~Resetting
    /\ runs < MaxRuns
    /\ runs' = runs + 1
    /\ pc' = [pc EXCEPT ![r] = "init"]
    /\ cmd' = [cmd EXCEPT ![r] = c]
    /\ err' = [err EXCEPT ![r] = Null]
    /\ exitCode' = [exitCode EXCEPT ![r] = Null]
    /\ migrations' = [migrations EXCEPT ![r] = <<>>]
    /\ pending' = [pending EXCEPT ![r] = <<>>]
    /\ idx' = [idx EXCEPT ![r] = 1]
    /\ executed' = [executed EXCEPT ![r] = <<>>]
    /\ start' = [start EXCEPT ![r] = [ledger |-> ledger, edits |-> edits,
                                      effects |-> effects]]
    /\ prev' = [prev EXCEPT ![r] = [cmd |-> cmd[r], exitCode |-> exitCode[r],
                                    edits |-> start[r].edits,
                                    killed |-> killed[r],
                                    unrecorded |-> Unrecorded(r)]]
    /\ killed' = [killed EXCEPT ![r] = NotKilled]
    /\ reported' = [reported EXCEPT ![r] = <<>>]
    /\ conn' = [conn EXCEPT ![r] = NoClient]
    /\ UNCHANGED <<fs, tableReady, ledger, effects, tx, edits, dbUp, nodeEnv, reset>>

\* process.exit(code), or the end of the process.
Exit(r, code, message) ==
    /\ pc' = [pc EXCEPT ![r] = "exited"]
    /\ exitCode' = [exitCode EXCEPT ![r] = Some(code)]
    /\ err' = [err EXCEPT ![r] = message]

\* The error pool.query and pool.connect reject with when the datastore is
\* not to be reached.
ConnectionError == Some("connection refused")

\* Initialize with DROP TABLE IF EXISTS before CREATE TABLE.
InitializeRecreating(r) ==
    /\ pc[r] = "init"
    /\ IF dbUp
       THEN /\ tableReady' = TRUE
            /\ ledger' = <<>>
            /\ pc' = [pc EXCEPT ![r] = IF cmd[r] = "status" THEN "status" ELSE "verify"]
            /\ UNCHANGED <<err, exitCode>>
       ELSE /\ Exit(r, 1, ConnectionError)
            /\ UNCHANGED <<tableReady, ledger>>
    /\ UNCHANGED <<fs, effects, cmd, migrations, pending,
                   idx, tx, executed, start, prev, runs, edits,
                   killed, dbUp, nodeEnv, reset, reported, conn>>

\* Initialize with a catch that logs the error and returns.
InitializeIgnoringError(r) ==
    /\ pc[r] = "init"
    /\ tableReady' = (tableReady \/ dbUp)
    /\ pc' = [pc EXCEPT ![r] = IF cmd[r] = "status" THEN "status" ELSE "verify"]
    /\ UNCHANGED <<fs, ledger, effects, cmd, err, exitCode, migrations, pending,
                   idx, tx, executed, start, prev, runs, edits,
                   killed, dbUp, nodeEnv, reset, reported, conn>>

\* initialize(): CREATE TABLE IF NOT EXISTS blockchain_migrations; when the
\* statement fails, process.exit(1).
Initialize(r) ==
    /\ pc[r] = "init"
    /\ IF dbUp
       THEN /\ tableReady' = TRUE
            /\ pc' = [pc EXCEPT ![r] = IF cmd[r] = "status" THEN "status" ELSE "verify"]
            /\ UNCHANGED <<err, exitCode>>
       ELSE /\ Exit(r, 1, ConnectionError)
            /\ UNCHANGED tableReady
    /\ UNCHANGED <<fs, ledger, effects, cmd, migrations, pending,
                   idx, tx, executed, start, prev, runs, edits,
                   killed, dbUp, nodeEnv, reset, reported, conn>>

\* verifyMigrationIntegrity() in run() and in the verify command: a throw,
\* of the query for the applied rows or of the check, ends either with
\* process.exit(1).
Verify(r) ==
    /\ pc[r] = "verify"
    /\ IF ~dbUp
       THEN Exit(r, 1, ConnectionError)
       ELSE IF verifyMigrationIntegrity(ledger, fs[r])
       THEN IF cmd[r] = "verify"
            THEN Exit(r, 0, Null)
            ELSE /\ pc' = [pc EXCEPT ![r] = "discover"]
                 /\ UNCHANGED <<err, exitCode>>
       ELSE Exit(r, 1, Some("integrity check failed"))
    /\ reported' = [reported EXCEPT ![r] =
                       IF dbUp THEN VerifyErrors(fs[r], getAppliedMigrations(ledger))
                       ELSE @]
    /\ UNCHANGED <<fs, tableReady, ledger, effects, cmd, migrations, pending,
                   idx, tx, executed, start, prev, runs, edits,
                   killed, dbUp, nodeEnv, reset, conn>>

\* The exit code of a process whose promise is rejected with no handler: 1
\* where Node makes the rejection an uncaught exception, 0 where it warns.
UnhandledRejectionCodes == {0, 1}

\* status(): discovers, reads every row, prints the table. Nothing handles a
\* rejection of the query.
Status(r) ==
    /\ pc[r] = "status"
    /\ migrations' = [migrations EXCEPT ![r] = discoverMigrations(fs[r])]
    /\ IF dbUp
       THEN Exit(r, 0, Null)
       ELSE \E code \in UnhandledRejectionCodes : Exit(r, code, ConnectionError)
    /\ UNCHANGED <<fs, tableReady, ledger, effects, cmd, pending, idx, tx,
                   executed, start, prev, runs, edits,
                   killed, dbUp, nodeEnv, reset, reported, conn>>

\* run(): const migrations = await this.discoverMigrations()
Discover(r) ==
    /\ pc[r] = "discover"
    /\ migrations' = [migrations EXCEPT ![r] = discoverMigrations(fs[r])]
    /\ pc' = [pc EXCEPT ![r] = "filter"]
    /\ UNCHANGED <<fs, tableReady, ledger, effects, cmd, err, exitCode, pending,
                   idx, tx, executed, start, prev, runs, edits,
                   killed, dbUp, nodeEnv, reset, reported, conn>>

\* The migrations whose number is not among the completed rows.
PendingOf(ms, table) ==
    LET applied == getAppliedMigrations(table)
        appliedNumbers == {applied[i].num : i \in 1..Len(applied)}
        IsPending(m) == m.number \notin appliedNumbers
    IN SelectSeq(ms, IsPending)

\* run(): the applied rows are read and the pending migrations are kept; with
\* none pending run() returns.
Filter(r) ==
    /\ pc[r] = "filter"
    /\ idx' = [idx EXCEPT ![r] = 1]
    /\ IF ~dbUp
       THEN /\ Exit(r, 1, ConnectionError)
            /\ UNCHANGED pending
       ELSE /\ pending' = [pending EXCEPT ![r] = PendingOf(migrations[r], ledger)]
            /\ IF pending'[r] = <<>>
               THEN Exit(r, 0, Null)
               ELSE /\ pc' = [pc EXCEPT ![r] = "begin"]
                    /\ UNCHANGED <<err, exitCode>>
    /\ UNCHANGED <<fs, tableReady, ledger, effects, cmd, migrations, tx,
                   executed, start, prev, runs, edits,
                   killed, dbUp, nodeEnv, reset, reported, conn>>

(***************************************************************************)
(* applyMigration(migration), one statement at a time.                     *)
(***************************************************************************)
\* applyMigration returned to the loop of run(): the next pending migration,
\* or the end of run().
Advance(r) ==
    IF idx[r] = Len(pending[r])
    THEN /\ Exit(r, 0, Null)
         /\ UNCHANGED idx
    ELSE /\ idx' = [idx EXCEPT ![r] = idx[r] + 1]
         /\ pc' = [pc EXCEPT ![r] = "begin"]
         /\ UNCHANGED <<err, exitCode>>

\* pool.connect() and BEGIN; a rejection of pool.connect() is outside the
\* try of applyMigration and ends run() with process.exit(1).
Begin(r) ==
    /\ pc[r] = "begin"
    /\ IF dbUp
       THEN /\ conn' = [conn EXCEPT ![r] = Acquire(@)]
            /\ tx' = [tx EXCEPT ![r] = [open |-> TRUE, rows |-> <<>>, eff |-> {}]]
            /\ pc' = [pc EXCEPT ![r] = "select"]
            /\ UNCHANGED <<err, exitCode>>
       ELSE /\ Exit(r, 1, ConnectionError)
            /\ UNCHANGED <<tx, conn>>
    /\ UNCHANGED <<fs, tableReady, ledger, effects, cmd,
                   migrations, pending, idx, executed, start, prev, runs, edits,
                   killed, dbUp, nodeEnv, reset, reported>>

\* existing for a runner that does not look for a row of the number.
existingNever(r, m) == FALSE

\* What SELECT id ... WHERE migration_number = $1 finds: a committed row.
existing(r, m) == HasRow(ledger, m.number)

\* The check for a row of the number: with one, ROLLBACK, release and
\* return 'skipped'.
Select(r) ==
    /\ pc[r] = "select"
    /\ IF existing(r, Current(r))
       THEN /\ tx' = [tx EXCEPT ![r] = NoTx]
            /\ conn' = [conn EXCEPT ![r] = Release(@, tx'[r])]
            /\ Advance(r)
       ELSE /\ pc' = [pc EXCEPT ![r] = "insert"]
            /\ UNCHANGED <<tx, idx, err, exitCode, conn>>
    /\ UNCHANGED <<fs, tableReady, ledger, effects, cmd, migrations, pending,
                   executed, start, prev, runs, edits,
                   killed, dbUp, nodeEnv, reset, reported>>

\* UniqueViolation for a table declared without the UNIQUE constraint.
NoUniqueConstraint(table, n) == FALSE

\* The UNIQUE constraint on migration_number, against the committed rows.
UniqueViolation(table, n) == HasRow(table, n)

\* INSERT of the 'running' row. It waits while another transaction holds an
\* uncommitted row of the number, and raises once a committed one is there.
Insert(r) ==
    /\ pc[r] = "insert"
    /\ ~HeldByOther(r, Current(r).number)
    /\ IF UniqueViolation(ledger, Current(r).number)
       THEN /\ err' = [err EXCEPT ![r] = Some("duplicate key")]
            /\ pc' = [pc EXCEPT ![r] = "rollback"]
            /\ UNCHANGED tx
       ELSE /\ tx' = [tx EXCEPT ![r].rows =
                         <<Row(Current(r).number, Current(r).filename,
                               Current(r).hash, "running", Null, Null)>>]
            /\ pc' = [pc EXCEPT ![r] = "exec"]
            /\ UNCHANGED err
    /\ UNCHANGED <<fs, tableReady, ledger, effects, cmd, exitCode, migrations,
                   pending, idx, executed, start, prev, runs, edits,
                   killed, dbUp, nodeEnv, reset, reported, conn>>

\* client.query(migration.content): the statements of the body take effect
\* in the transaction, those before a failing statement too.
Execute(r) ==
    /\ pc[r] = "exec"
    /\ executed' = [executed EXCEPT ![r] = Append(@, PathOf(Current(r)))]
    /\ tx' = [tx EXCEPT ![r].eff = @ \cup {PathOf(Current(r))}]
    /\ IF ExecError(Current(r).content) # Null
       THEN /\ err' = [err EXCEPT ![r] = ExecError(Current(r).content)]
            /\ pc' = [pc EXCEPT ![r] = "rollback"]
       ELSE /\ pc' = [pc EXCEPT ![r] = "update"]
            /\ UNCHANGED err
    /\ UNCHANGED <<fs, tableReady, ledger, effects, cmd, exitCode, migrations,
                   pending, idx, start, prev, runs, edits,
                   killed, dbUp, nodeEnv, reset, reported, conn>>

\* Date.now() - startTime, in milliseconds.
ExecutionTimes == {7}

\* SetCompleted with an UPDATE that sets execution_time_ms and not status.
SetCompletedTimeOnly(rows, n, executionTime) ==
    [i \in 1..Len(rows) |->
        IF rows[i].num = n
        THEN [rows[i] EXCEPT !.time = Some(executionTime)]
        ELSE rows[i]]

\* UPDATE ... SET status = 'completed', execution_time_ms WHERE migration_number
SetCompleted(rows, n, executionTime) ==
    [i \in 1..Len(rows) |->
        IF rows[i].num = n
        THEN [rows[i] EXCEPT !.status = "completed", !.time = Some(executionTime)]
        ELSE rows[i]]

Update(r) ==
    /\ pc[r] = "update"
    /\ \E executionTime \in ExecutionTimes :
         tx' = [tx EXCEPT ![r].rows = SetCompleted(@, Current(r).number, executionTime)]
    /\ pc' = [pc EXCEPT ![r] = "commit"]
    /\ UNCHANGED <<fs, tableReady, ledger, effects, cmd, err, exitCode,
                   migrations, pending, idx, executed, start, prev, runs, edits,
                   killed, dbUp, nodeEnv, reset, reported, conn>>

\* CommittedRows for a transaction that is ended without COMMIT.
CommittedRowsLost(table, t) == table

\* The rows and the effects a COMMIT of the transaction makes durable.
CommittedRows(table, t) == table \o t.rows
CommittedEffects(eff, t) == [p \in Paths |-> IF p \in t.eff THEN eff[p] + 1 ELSE eff[p]]

\* Commit for a datastore that makes the rows durable and keeps the locks of
\* the transaction.
CommitHolding(r) ==
    /\ pc[r] = "commit"
    /\ ledger' = CommittedRows(ledger, tx[r])
    /\ effects' = CommittedEffects(effects, tx[r])
    /\ conn' = [conn EXCEPT ![r] = Release(@, tx[r])]
    /\ Advance(r)
    /\ UNCHANGED <<fs, tableReady, cmd, migrations, pending, executed, start,
                   prev, runs, edits, tx,
                   killed, dbUp, nodeEnv, reset, reported>>

\* COMMIT, release and return 'success'.
Commit(r) ==
    /\ pc[r] = "commit"
    /\ ledger' = CommittedRows(ledger, tx[r])
    /\ effects' = CommittedEffects(effects, tx[r])
    /\ tx' = [tx EXCEPT ![r] = NoTx]
    /\ conn' = [conn EXCEPT ![r] = Release(@, tx'[r])]
    /\ Advance(r)
    /\ UNCHANGED <<fs, tableReady, cmd, migrations, pending, executed, start,
                   prev, runs, edits,
                   killed, dbUp, nodeEnv, reset, reported>>

\* Rollback as a statement that makes the effects of the transaction durable.
RollbackKeepingEffects(r) ==
    /\ pc[r] = "rollback"
    /\ effects' = CommittedEffects(effects, tx[r])
    /\ tx' = [tx EXCEPT ![r] = NoTx]
    /\ pc' = [pc EXCEPT ![r] = "recordfail"]
    /\ UNCHANGED <<fs, tableReady, ledger, cmd, err, exitCode,
                   migrations, pending, idx, executed, start, prev, runs, edits,
                   killed, dbUp, nodeEnv, reset, reported, conn>>

\* catch: ROLLBACK
Rollback(r) ==
    /\ pc[r] = "rollback"
    /\ tx' = [tx EXCEPT ![r] = NoTx]
    /\ pc' = [pc EXCEPT ![r] = "recordfail"]
    /\ UNCHANGED <<fs, tableReady, ledger, effects, cmd, err, exitCode,
                   migrations, pending, idx, executed, start, prev, runs, edits,
                   killed, dbUp, nodeEnv, reset, reported, conn>>

\* RecordFailure with a catch block that does not throw the error again.
RecordFailureSwallowed(r) ==
    /\ pc[r] = "recordfail"
    /\ ~HeldByOther(r, Current(r).number)
    /\ ledger' = UpsertFailed(ledger, Current(r), err[r][1])
    /\ conn' = [conn EXCEPT ![r] = Release(@, tx[r])]
    /\ Advance(r)
    /\ UNCHANGED <<fs, tableReady, effects, cmd, migrations, pending, tx,
                   executed, start, prev, runs, edits,
                   killed, dbUp, nodeEnv, reset, reported>>

\* RecordFailure without the inner try: an error of the upsert is thrown in
\* place of the error of the script.
RecordFailureThrowing(r) ==
    /\ pc[r] = "recordfail"
    /\ ~HeldByOther(r, Current(r).number)
    /\ ledger' = IF dbUp THEN UpsertFailed(ledger, Current(r), err[r][1]) ELSE ledger
    /\ conn' = [conn EXCEPT ![r] = Release(@, tx[r])]
    /\ Exit(r, 1, IF dbUp THEN err[r] ELSE ConnectionError)
    /\ UNCHANGED <<fs, tableReady, effects, cmd, migrations, pending, idx, tx,
                   executed, start, prev, runs, edits,
                   killed, dbUp, nodeEnv, reset, reported>>

\* catch: the failure row is upserted outside any transaction (an error of
\* the upsert is logged and dropped), the error is thrown again, the client
\* is released and run() ends with process.exit(1).
RecordFailure(r) ==
    /\ pc[r] = "recordfail"
    /\ ~HeldByOther(r, Current(r).number)
    /\ ledger' = IF dbUp THEN UpsertFailed(ledger, Current(r), err[r][1]) ELSE ledger
    /\ conn' = [conn EXCEPT ![r] = Release(@, tx[r])]
    /\ Exit(r, 1, err[r])
    /\ UNCHANGED <<fs, tableReady, effects, cmd, migrations, pending, idx, tx,
                   executed, start, prev, runs, edits,
                   killed, dbUp, nodeEnv, reset, reported>>

(***************************************************************************)
(* The developers change the script files.                                 *)
(***************************************************************************)
\* A change is seen by the next read of the files, so it is made when the
\* runner is about to read them or when its process has ended.
ReadsFiles(r) == pc[r] \in {"verify", "discover", "status"}
Running(r) == pc[r] \notin {"idle", "exited", "crashed"}

EditFile(r, p, c) ==
    /\ edits < MaxEdits
    /\ ReadsFiles(r) \/ ~Running(r)
    /\ fs[r][p] # c
    /\ fs' = [fs EXCEPT ![r][p] = c]
    /\ edits' = edits + 1
    /\ UNCHANGED <<tableReady, ledger, effects, pc, cmd, err, exitCode,
                   migrations, pending, idx, tx, executed, start, prev, runs,
                   killed, dbUp, nodeEnv, reset, reported, conn>>

(***************************************************************************)
(* The runner process is killed: the datastore aborts the transaction of   *)
(* the connection it loses.                                                *)
(***************************************************************************)
\* The statements of applyMigration from BEGIN to the write of the failure
\* record.
InAttempt(r) ==
    pc[r] \in {"select", "insert", "exec", "update", "commit", "rollback", "recordfail"}

\* Crash against a datastore that keeps the rows of the transaction of a
\* lost connection.
CrashLeavingRows(r) ==
    /\ Running(r)
    /\ pc' = [pc EXCEPT ![r] = "crashed"]
    /\ ledger' = ledger \o tx[r].rows
    /\ tx' = [tx EXCEPT ![r] = NoTx]
    /\ killed' = [killed EXCEPT ![r] =
                     IF InAttempt(r)
                     THEN [at |-> pc[r], script |-> Some(PathOf(Current(r))),
                           row |-> HasRow(ledger, Current(r).number)]
                     ELSE [at |-> pc[r], script |-> Null, row |-> FALSE]]
    /\ conn' = [conn EXCEPT ![r] = NoClient]
    /\ UNCHANGED <<fs, tableReady, effects, cmd, err, exitCode,
                   migrations, pending, idx, executed, start, prev, runs, edits,
                   dbUp, nodeEnv, reset, reported>>

Crash(r) ==
    /\ Running(r)
    /\ pc' = [pc EXCEPT ![r] = "crashed"]
    /\ tx' = [tx EXCEPT ![r] = NoTx]
    /\ killed' = [killed EXCEPT ![r] =
                     IF InAttempt(r)
                     THEN [at |-> pc[r], script |-> Some(PathOf(Current(r))),
                           row |-> HasRow(ledger, Current(r).number)]
                     ELSE [at |-> pc[r], script |-> Null, row |-> FALSE]]
    /\ conn' = [conn EXCEPT ![r] = NoClient]
    /\ UNCHANGED <<fs, tableReady, ledger, effects, cmd, err, exitCode,
                   migrations, pending, idx, executed, start, prev, runs, edits,
                   dbUp, nodeEnv, reset, reported>>

(***************************************************************************)
(* The datastore becomes unreachable, and reachable again, between the     *)
(* transactions of the runners.                                            *)
(***************************************************************************)
Outage ==
    /\ \A r \in Runners : ~tx[r].open
    /\ dbUp' = ~dbUp
    /\ UNCHANGED <<fs, tableReady, ledger, effects, pc, cmd, err, exitCode,
                   migrations, pending, idx, tx, executed, start, prev, runs,
                   edits, killed, nodeEnv, reset, reported, conn>>

(***************************************************************************)
(* The reset utility, scripts/reset-dev-db.js.                             *)
(***************************************************************************)
\* What the developer can type at the prompt.
Answers == {"RESET", "reset", "RESET ", ""}

\* The structures of a script that are tables, or rows of tables: those of
\* the schema and the seed-data scripts. A functions script makes routines.
MakesTables(p) == p.dir # "002-functions"

\* The tables of the public schema, as pg_tables lists them: those of the
\* scripts (named by the script) and blockchain_migrations.
ScriptTables(eff) == {p \in Paths : MakesTables(p) /\ eff[p] > 0}
PublicTables(ready, eff) ==
    Cardinality(ScriptTables(eff)) + (IF ready THEN 1 ELSE 0)

\* The end of the utility's process.
ResetExit(code) ==
    [reset EXCEPT !.pc = "exited", !.exitCode = Some(code), !.runs = runs]

\* ResetStart without the check of NODE_ENV.
ResetStartUnguarded ==
    /\ ~Resetting
    /\ \A r \in Runners : ~Running(r)
    /\ reset.count < MaxResets
    /\ reset' = [NoReset EXCEPT !.pc = "prompt", !.prompts = 1,
                                !.count = reset.count + 1]
    /\ UNCHANGED <<fs, tableReady, ledger, effects, pc, cmd, err, exitCode,
                   migrations, pending, idx, tx, executed, start, prev, runs,
                   edits, killed, dbUp, nodeEnv, reported, conn>>

\* The utility is started, while no runner is at work: in production it ends
\* with process.exit(1), elsewhere it shows the prompt.
ResetStart ==
    /\ ~Resetting
    /\ \A r \in Runners : ~Running(r)
    /\ reset.count < MaxResets
    /\ reset' = IF nodeEnv = Some("production")
                THEN [NoReset EXCEPT !.pc = "exited", !.exitCode = Some(1),
                                     !.count = reset.count + 1, !.runs = runs]
                ELSE [NoReset EXCEPT !.pc = "prompt", !.prompts = 1,
                                     !.count = reset.count + 1]
    /\ UNCHANGED <<fs, tableReady, ledger, effects, pc, cmd, err, exitCode,
                   migrations, pending, idx, tx, executed, start, prev, runs,
                   edits, killed, dbUp, nodeEnv, reported, conn>>

\* ResetAnswer with a comparison that takes any answer but the empty one.
ResetAnswerLoose(answer) ==
    /\ reset.pc = "prompt"
    /\ reset' = IF answer = ""
                THEN [ResetExit(0) EXCEPT !.answer = Some(answer)]
                ELSE [reset EXCEPT !.pc = "query", !.answer = Some(answer)]
    /\ UNCHANGED <<fs, tableReady, ledger, effects, pc, cmd, err, exitCode,
                   migrations, pending, idx, tx, executed, start, prev, runs,
                   edits, killed, dbUp, nodeEnv, reported, conn>>

\* The callback of rl.question: any answer but RESET ends with
\* process.exit(0).
ResetAnswer(answer) ==
    /\ reset.pc = "prompt"
    /\ reset' = IF answer # "RESET"
                THEN [ResetExit(0) EXCEPT !.answer = Some(answer)]
                ELSE [reset EXCEPT !.pc = "query", !.answer = Some(answer)]
    /\ UNCHANGED <<fs, tableReady, ledger, effects, pc, cmd, err, exitCode,
                   migrations, pending, idx, tx, executed, start, prev, runs,
                   edits, killed, dbUp, nodeEnv, reported, conn>>

\* SELECT tablename FROM pg_tables, then DROP TABLE IF EXISTS ... CASCADE
\* of every table listed; an error ends with process.exit(1).
ResetDrop ==
    /\ reset.pc = "query"
    /\ IF dbUp
       THEN LET tables == PublicTables(tableReady, effects)
            IN /\ tableReady' = FALSE
               /\ ledger' = <<>>
               /\ effects' = [p \in Paths |->
                                 IF p \in ScriptTables(effects) THEN 0 ELSE effects[p]]
               /\ reset' = [ResetExit(0) EXCEPT !.statements = 1 + tables,
                                                !.drops = tables]
       ELSE /\ reset' = [ResetExit(1) EXCEPT !.statements = 1]
            /\ UNCHANGED <<tableReady, ledger, effects>>
    /\ UNCHANGED <<fs, pc, cmd, err, exitCode, migrations, pending, idx, tx,
                   executed, start, prev, runs, edits, killed, dbUp, nodeEnv, reported, conn>>

ResetStep ==
    \/ ResetStart
    \/ \E answer \in Answers : ResetAnswer(answer)
    \/ ResetDrop

(***************************************************************************)
(* Specifications.                                                         *)
(***************************************************************************)
\* The statements of a started process.
Proceed(r) ==
    \/ Initialize(r)
    \/ Verify(r)
    \/ Status(r)
    \/ Discover(r)
    \/ Filter(r)
    \/ Begin(r)
    \/ Select(r)
    \/ Insert(r)
    \/ Execute(r)
    \/ Update(r)
    \/ Commit(r)
    \/ Rollback(r)
    \/ RecordFailure(r)

RunnerStep(r) ==
    \/ \E c \in Commands : Start(r, c)
    \/ Proceed(r)

Edit(r, paths) ==
    \E p \in paths, c \in {Absent} \cup {File(b) : b \in Contents} : EditFile(r, p, c)

\* The files the developers of a deployed checkout work on, and those the
\* developer who uses the reset utility works on.
SeqPaths == {P1, P2, P3, P4}
DevPaths == {P1, P3, P5}

\* Two runner processes at a time against one datastore, each reading the
\* checkout it was deployed with.
Next == \E r \in Runners : RunnerStep(r)
Spec == Init /\ [][Next]_vars

\* One runner process at a time, and developers who change its files.
NextSeq == RunnerStep(1) \/ Edit(1, SeqPaths)
SpecSeq == InitSeq /\ [][NextSeq]_vars

\* One runner process at a time, which can be killed at any statement.
NextCrash == RunnerStep(1) \/ Crash(1)
SpecCrash == InitSeq /\ [][NextCrash]_vars

\* One runner process at a time, on any set of script files.
NextAny == RunnerStep(1)
SpecAny == InitAny /\ [][NextAny]_vars

\* One runner process at a time, and a datastore that can be out of reach.
NextFault == RunnerStep(1) \/ Outage
SpecFault == InitSeq /\ [][NextFault]_vars

\* A developer who runs the runner and the reset utility in turn, and
\* changes the script files.
NextDev == RunnerStep(1) \/ ResetStep \/ Edit(1, DevPaths)
SpecDev == InitDev /\ [][NextDev]_vars

(***************************************************************************)
(* Properties.                                                             *)
(***************************************************************************)
\* The status the ledger holds for a migration number.
StatusOf(table, n) ==
    IF HasRow(table, n)
    THEN table[CHOOSE i \in 1..Len(table) : table[i].num = n].status
    ELSE "absent"

ErrorOf(table, n) == table[CHOOSE i \in 1..Len(table) : table[i].num = n].error

\* The ledger holds a completed row whose file, as located by its name, is
\* there with another fingerprint than the recorded one.
Tampered(table, fsys) ==
    \E i \in 1..Len(table) :
        /\ table[i].status = "completed"
        /\ findMigrationFile(fsys, table[i].filename) # Null
        /\ calculateHash(Decode(fsys[findMigrationFile(fsys, table[i].filename)[1]][1]))
              # table[i].hash

IntegrityFailure == Some("integrity check failed")

\* C1 (tamper detection): when the ledger holds a completed row for a script
\* whose live file now has another fingerprint, the verification step of the
\* verify command and of the run command ends the process with exit code 1,
\* and the process has executed no script and has left the ledger as it was
\* when it began.
C1_TamperDetection ==
    [][\A r \in Runners :
          (pc[r] = "verify" /\ pc'[r] # "verify" /\ Tampered(ledger, fs[r]))
          => /\ pc'[r] = "exited"
             /\ exitCode'[r] = Some(1)
             /\ executed'[r] = <<>>
             /\ ledger' = start[r].ledger
             /\ effects' = effects]_vars

\* A run has ended with exit code 1 on a tampered script.
C1_Witness ==
    \E r \in Runners :
        /\ pc[r] = "exited" /\ cmd[r] = "run" /\ exitCode[r] = Some(1)
        /\ err[r] = IntegrityFailure
        /\ Tampered(ledger, fs[r])
        /\ executed[r] = <<>>

\* The run of runner r has ended, having found three pending scripts with
\* ascending numbers and no row for any of them, the first valid and the
\* second one raising an error when executed.
FailFastCase(r) ==
    /\ pc[r] = "exited" /\ cmd[r] = "run"
    /\ Len(pending[r]) = 3
    /\ pending[r][1].number < pending[r][2].number
    /\ pending[r][2].number < pending[r][3].number
    /\ \A i \in 1..3 : ~HasRow(start[r].ledger, pending[r][i].number)
    /\ ExecError(pending[r][1].content) = Null
    /\ ExecError(pending[r][2].content) # Null

\* C2 (fail-fast halting): after such a run S1 is completed, S2 is failed with
\* a non-empty error detail, S3 has no row and was never executed, and the
\* exit code is 1.
C2_FailFast ==
    \A r \in Runners :
        FailFastCase(r)
        => /\ StatusOf(ledger, pending[r][1].number) = "completed"
           /\ StatusOf(ledger, pending[r][2].number) = "failed"
           /\ ErrorOf(ledger, pending[r][2].number) # Null
           /\ ErrorOf(ledger, pending[r][2].number) # Some("")
           /\ ~HasRow(ledger, pending[r][3].number)
           /\ \A i \in 1..Len(executed[r]) : executed[r][i] # PathOf(pending[r][3])
           /\ exitCode[r] = Some(1)

C2_Witness == \E r \in Runners : FailFastCase(r)

\* The run of runner r has ended, having begun with S1 completed, S2 failed
\* and S3 without a row, and having discovered S2 and S3 with valid content.
RetryCase(r) ==
    /\ pc[r] = "exited" /\ cmd[r] = "run"
    /\ Len(migrations[r]) = 3
    /\ migrations[r][1].number < migrations[r][2].number
    /\ migrations[r][2].number < migrations[r][3].number
    /\ StatusOf(start[r].ledger, migrations[r][1].number) = "completed"
    /\ StatusOf(start[r].ledger, migrations[r][2].number) = "failed"
    /\ StatusOf(start[r].ledger, migrations[r][3].number) = "absent"
    /\ ExecError(migrations[r][2].content) = Null
    /\ ExecError(migrations[r][3].content) = Null

\* C3 (retry-ability): such a run executes exactly S2 and then S3, keeps one
\* row per number, and leaves S2 and S3 completed.
C3_Retry ==
    \A r \in Runners :
        RetryCase(r)
        => /\ executed[r] = <<PathOf(migrations[r][2]), PathOf(migrations[r][3])>>
           /\ StatusOf(ledger, migrations[r][2].number) = "completed"
           /\ StatusOf(ledger, migrations[r][3].number) = "completed"
           /\ Len(ledger) = 3

\* C4 (sequential consistency): when a run has executed the body of a script,
\* every script it discovered with a smaller number has a completed row.
C4_SequentialConsistency ==
    \A r \in Runners :
        pc[r] = "update"
        => \A i \in 1..Len(migrations[r]) :
              migrations[r][i].number < Current(r).number
              => StatusOf(ledger, migrations[r][i].number) = "completed"

\* The ledger holds a completed row of the script at path p.
CompletedRowOf(table, p) ==
    \E i \in 1..Len(table) :
        /\ table[i].status = "completed"
        /\ table[i].filename = p.file
        /\ \E d \in 1..Len(dirs) :
              /\ dirs[d].name = p.dir
              /\ table[i].num = dirs[d].priority * 1000 + ParsedNumber(p.file)

\* C5 (atomic apply): with one runner, in every state the datastore can be
\* left in (a commit, an execution error, a crash at any statement), the
\* effects of a script are persisted exactly when its completed row is.
C5_AtomicApply ==
    \A p \in Paths : (effects[p] > 0) <=> CompletedRowOf(ledger, p)

\* A process was killed between BEGIN and COMMIT after it executed a body,
\* and the effects and the row of an earlier script are persisted.
C5_Witness ==
    /\ pc[1] = "crashed"
    /\ executed[1] # <<>>
    /\ effects[executed[1][Len(executed[1])]] = 0
    /\ \E p \in Paths : effects[p] > 0 /\ CompletedRowOf(ledger, p)

\* C6 (no double apply): with two concurrent runners the effects of a script
\* are committed at most once and no two rows share a migration number.
C6_NoDoubleApply ==
    /\ \A p \in Paths : effects[p] <= 1
    /\ \A i, j \in 1..Len(ledger) : ledger[i].num = ledger[j].num => i = j

DuplicateKey == Some("duplicate key")

\* A runner's INSERT met the row the other runner committed after this
\* runner's check, and the script's effects are there once.
C6_Witness ==
    \E r \in Runners :
        /\ err[r] = DuplicateKey
        /\ effects[PathOf(Current(r))] = 1

\* C7 (completed is terminal): no step changes the status of a completed row.
C7_CompletedTerminal ==
    [][\A i \in 1..Len(ledger) :
          ledger[i].status = "completed" => ledger'[i].status = "completed"]_vars

\* C8 (benign duplicate): a runner whose script a concurrent runner completes
\* skips it: its INSERT raises no error, so that no runner ever has the
\* duplicate-key error to handle, to record or to exit with.
C8_BenignDuplicate == \A r \in Runners : err[r] # DuplicateKey

\* C9 (fingerprint immutability): no step changes the number, the file name
\* or the fingerprint of a row of the ledger, completed or not, and no step
\* removes a row.
C9_FingerprintImmutable ==
    [][/\ Len(ledger') >= Len(ledger)
       /\ \A i \in 1..Len(ledger) :
             /\ ledger'[i].num = ledger[i].num
             /\ ledger'[i].filename = ledger[i].filename
             /\ ledger'[i].hash = ledger[i].hash]_vars

\* A failing attempt of a runner whose checkout holds other content has
\* written to the completed row of the other runner.
C9_Witness ==
    \E r \in Runners : \E i \in 1..Len(ledger) :
        /\ pc[r] = "exited" /\ err[r] = DuplicateKey
        /\ ledger[i].num = Current(r).number
        /\ ledger[i].time # Null
        /\ ledger[i].status = "failed"
        /\ ledger[i].hash # Current(r).hash

\* The run of runner r has ended; the process before it was a run that ended
\* with exit code 0, and no file was changed since that run began.
RunAgainCase(r) ==
    /\ pc[r] = "exited" /\ cmd[r] = "run"
    /\ prev[r].cmd = "run" /\ prev[r].exitCode = Some(0)
    /\ edits = prev[r].edits

\* The second run executed nothing, left the ledger as it found it and
\* ended with exit code 0.
NothingDone(r) ==
    /\ executed[r] = <<>>
    /\ ledger = start[r].ledger
    /\ exitCode[r] = Some(0)

\* C10 as stated (idempotence): a run that follows a run with exit code 0,
\* the files unchanged, executes nothing, changes no row and exits with 0.
C10_Original == \A r \in Runners : RunAgainCase(r) => NothingDone(r)

\* No two live files of the checkout have the same file name.
UniqueNames(fsys) ==
    \A p, q \in Paths :
        (Exists(fsys, p) /\ Exists(fsys, q) /\ p.file = q.file) => p = q

\* C10 as amended (idempotence): the same, for a checkout in which no two
\* live script files have the same file name.
C10_Idempotence ==
    \A r \in Runners : (RunAgainCase(r) /\ UniqueNames(fs[r])) => NothingDone(r)

\* A second run has ended after a first run that applied scripts.
C10_Witness ==
    \E r \in Runners :
        /\ RunAgainCase(r) /\ UniqueNames(fs[r])
        /\ \E i \in 1..Len(ledger) : ledger[i].status = "completed"

\* The run of runner r has ended, and the run before it was killed in an
\* attempt (at any statement from BEGIN to the write of the failure record)
\* of a script that had no row in the ledger.
ReentryCase(r) ==
    /\ pc[r] = "exited" /\ cmd[r] = "run"
    /\ prev[r].cmd = "run"
    /\ prev[r].killed.script # Null
    /\ ~prev[r].killed.row

\* C11 (crash re-entry): when a run was killed in an attempt before its
\* transaction committed, the script has no completed row when the next run
\* begins, and the next run executes the script again.
C11_CrashReentry ==
    \A r \in Runners :
        ReentryCase(r)
        => /\ ~CompletedRowOf(start[r].ledger, prev[r].killed.script[1])
           /\ \E i \in 1..Len(executed[r]) :
                  executed[r][i] = prev[r].killed.script[1]

\* A run was killed after ROLLBACK and before the failure record of a script
\* was written, and the next run has ended.
C11_Witness ==
    \E r \in Runners : ReentryCase(r) /\ prev[r].killed.at = "recordfail"

ScriptError == Some("syntax error")

\* The run of runner r has ended on the error the execution of a script
\* raised.
ExecutionFailed(r) ==
    /\ pc[r] = "exited" /\ cmd[r] = "run"
    /\ err[r] = ScriptError

\* C12 (failure record survives rollback): when the execution of a script
\* raised an error, none of the script's effects is persisted, no transaction
\* is left open, and the ledger holds a committed row of the script's number
\* with status failed and the message of the error.
C12_FailureRecorded ==
    \A r \in Runners :
        ExecutionFailed(r)
        => /\ effects[PathOf(Current(r))] = start[r].effects[PathOf(Current(r))]
           /\ ~tx[r].open
           /\ StatusOf(ledger, Current(r).number) = "failed"
           /\ ErrorOf(ledger, Current(r).number) = ScriptError

\* A run has ended on the error of its second script, after the effects of
\* its first script were committed.
C12_Witness ==
    \E r \in Runners :
        /\ ExecutionFailed(r)
        /\ Len(executed[r]) = 2
        /\ effects[executed[r][1]] = 1

\* The ledger holds a completed row whose file name is the name of no file
\* of any category directory.
Missing(table, fsys) ==
    \E i \in 1..Len(table) :
        /\ table[i].status = "completed"
        /\ findMigrationFile(fsys, table[i].filename) = Null

\* C13 (missing script): when the file of a completed row is in no category
\* directory, the verification step of the verify command and of the run
\* command ends the process with exit code 1, and the process has executed
\* no script and has written no row.
C13_MissingScript ==
    [][\A r \in Runners :
          (pc[r] = "verify" /\ pc'[r] # "verify" /\ dbUp /\ Missing(ledger, fs[r]))
          => /\ pc'[r] = "exited"
             /\ exitCode'[r] = Some(1)
             /\ err'[r] = IntegrityFailure
             /\ executed'[r] = <<>>
             /\ ledger' = start[r].ledger
             /\ effects' = start[r].effects]_vars

\* A run has ended with exit code 1 on a missing script, with another
\* script still pending.
C13_Witness ==
    \E r \in Runners :
        /\ pc[r] = "exited" /\ cmd[r] = "run" /\ exitCode[r] = Some(1)
        /\ err[r] = IntegrityFailure
        /\ Missing(ledger, fs[r])
        /\ ~Tampered(ledger, fs[r])
        /\ PendingOf(discoverMigrations(fs[r]), ledger) # <<>>
        /\ executed[r] = <<>>

\* Every script the run of runner r discovered has a completed row.
AllCompleted(r) ==
    \A i \in 1..Len(migrations[r]) :
        StatusOf(ledger, migrations[r][i].number) = "completed"

\* C14 (run exit code): a run that has ended has exit code 0 exactly when
\* its integrity verification passed and every script it discovered has a
\* completed row, and has exit code 1 when its verification failed or the
\* execution of a script failed.
C14_RunExitCode ==
    \A r \in Runners :
        (pc[r] = "exited" /\ cmd[r] = "run")
        => /\ (exitCode[r] = Some(0)) <=> (err[r] # IntegrityFailure /\ AllCompleted(r))
           /\ (err[r] = IntegrityFailure \/ err[r] = ScriptError) => exitCode[r] = Some(1)

\* The priority of a category directory, and the sequence number of the
\* script at a path.
PriorityOf(name) == dirs[CHOOSE d \in 1..Len(dirs) : dirs[d].name = name].priority
NumberOf(p) == PriorityOf(p.dir) * 1000 + ParsedNumber(p.file)

\* The run of runner r has discovered the scripts and is at work on them.
Discovered(r) == cmd[r] = "run" /\ Running(r) /\ pc[r] \notin {"init", "verify", "discover"}

\* C15 (discovery ordering): what discovery returned holds every well-named
\* live script once, each with the number priority * 1000 + the number of
\* its name, which is in the range of its category; the list is ascending
\* by number, so schema scripts come before functions scripts and these
\* before seed-data scripts; and the bodies are executed one at a time, in
\* ascending order of number.
C15_DiscoveryOrdering ==
    \A r \in Runners :
        /\ Discovered(r)
           => /\ {PathOf(migrations[r][i]) : i \in 1..Len(migrations[r])}
                    = {p \in Paths : Exists(fs[r], p) /\ MatchesPattern(p.file)}
              /\ Len(migrations[r])
                    = Cardinality({p \in Paths : Exists(fs[r], p) /\ MatchesPattern(p.file)})
        /\ \A i \in 1..Len(migrations[r]) :
              /\ migrations[r][i].number = NumberOf(PathOf(migrations[r][i]))
              /\ migrations[r][i].number >= PriorityOf(migrations[r][i].category) * 1000
              /\ migrations[r][i].number <= PriorityOf(migrations[r][i].category) * 1000 + 999
        /\ \A i, j \in 1..Len(migrations[r]) :
              i < j => /\ migrations[r][i].number <= migrations[r][j].number
                       /\ PriorityOf(migrations[r][i].category)
                             <= PriorityOf(migrations[r][j].category)
        /\ \A i, j \in 1..Len(executed[r]) :
              i < j => NumberOf(executed[r][i]) < NumberOf(executed[r][j])
        /\ \A i \in 1..Len(executed[r]) :
              \E k \in 1..idx[r] : PathOf(pending[r][k]) = executed[r][i]
        /\ Len(tx[r].rows) <= 1 /\ Cardinality(tx[r].eff) <= 1

\* A run has executed a schema script, a functions script and a seed-data
\* script, having discovered two schema scripts.
C15_Witness ==
    \E r \in Runners :
        /\ pc[r] = "exited" /\ cmd[r] = "run"
        /\ Len(migrations[r]) >= 4
        /\ migrations[r][1].category = "001-schema"
        /\ migrations[r][2].category = "001-schema"
        /\ \E i, j, k \in 1..Len(executed[r]) :
              /\ i < j /\ j < k
              /\ executed[r][i].dir = "001-schema"
              /\ executed[r][j].dir = "002-functions"
              /\ executed[r][k].dir = "003-seed-data"

Production == Some("production")
Confirmation == Some("RESET")

\* C16 (reset production guard): with NODE_ENV set to production the reset
\* utility shows no prompt, reads no answer, sends no statement, drops
\* nothing, and its process ends with exit code 1 at its first step.
C16_ProductionGuard ==
    nodeEnv = Production
    => /\ reset.pc \in {"idle", "exited"}
       /\ reset.prompts = 0
       /\ reset.answer = Null
       /\ reset.statements = 0
       /\ reset.drops = 0
       /\ reset.pc = "exited" => reset.exitCode = Some(1)

\* The reset utility was invoked in production on a datastore that holds
\* the ledger and the tables of a completed script, and has ended.
C16_Witness ==
    /\ nodeEnv = Production
    /\ reset.pc = "exited"
    /\ tableReady
    /\ \E p \in Paths : effects[p] > 0 /\ CompletedRowOf(ledger, p)

\* C17 (reset confirmation): outside production, the step that reads an
\* answer other than RESET ends the utility with exit code 0, having sent no
\* statement, and leaves the ledger table, its rows and the effects of the
\* scripts as they were.
C17_ResetConfirmation ==
    [][(reset.pc = "prompt" /\ reset' # reset /\ reset'.answer # Confirmation)
       => /\ reset'.pc = "exited"
          /\ reset'.exitCode = Some(0)
          /\ reset'.statements = 0
          /\ reset'.drops = 0
          /\ tableReady' = tableReady
          /\ ledger' = ledger
          /\ effects' = effects]_vars

\* The utility has ended on the answer "reset", with completed rows in the
\* ledger.
C17_Witness ==
    /\ reset.pc = "exited"
    /\ reset.answer = Some("reset")
    /\ \E p \in Paths : effects[p] > 0 /\ CompletedRowOf(ledger, p)

\* The reset utility has ended with exit code 0 after the answer RESET, and
\* n processes of the runner were started since.
AfterReset(n) ==
    /\ reset.pc = "exited"
    /\ reset.answer = Confirmation
    /\ reset.exitCode = Some(0)
    /\ runs = reset.runs + n

\* The scripts a run discovered are valid and have numbers of their own.
AllValid(ms) ==
    /\ \A i \in 1..Len(ms) : ExecError(ms[i].content) = Null
    /\ \A i, j \in 1..Len(ms) : ms[i].number = ms[j].number => i = j

\* C18 (reset then run): after a confirmed reset no structure is left, not
\* the ledger table, not a row, not an effect of any script; and the run that
\* follows begins with no row, passes the integrity verification, and
\* executes every script it discovers (all of them valid), in the order of
\* discovery.
C18_ResetThenRun ==
    /\ AfterReset(0)
       => /\ ~tableReady
          /\ ledger = <<>>
          /\ \A p \in Paths : effects[p] = 0
    /\ \A r \in Runners :
          (AfterReset(1) /\ pc[r] = "exited" /\ cmd[r] = "run")
          => /\ start[r].ledger = <<>>
             /\ err[r] # IntegrityFailure
             /\ AllValid(migrations[r])
                => executed[r] = [i \in 1..Len(migrations[r]) |-> PathOf(migrations[r][i])]

\* C19 (read-only commands): no step of a status or a verify process
\* executes a script body, opens a transaction, or changes the rows of the
\* ledger or the effects of the scripts; when the process ends the ledger is
\* what it was when the process began.
C19_ReadOnlyCommands ==
    [][\A r \in Runners :
          (cmd[r] \in {"status", "verify"} /\ Running(r) /\ pc'[r] # pc[r])
          => /\ ledger' = ledger
             /\ effects' = effects
             /\ executed'[r] = <<>>
             /\ ~tx'[r].open
             /\ pc'[r] = "exited" => ledger' = start[r].ledger]_vars

\* A status process has ended, after a run that left a completed and a
\* failed row in the ledger.
C19_Witness ==
    \E r \in Runners :
        /\ pc[r] = "exited" /\ cmd[r] = "status"
        /\ prev[r].cmd = "run"
        /\ \E i, j \in 1..Len(ledger) :
              ledger[i].status = "completed" /\ ledger[j].status = "failed"

\* C20 (ledger unavailable): when the datastore is out of reach at the
\* start of a run, at the creation of the ledger table or at the read of its
\* rows, that step ends the process with exit code 1: nothing was
\* discovered, no row was compared with a file, no script body was executed,
\* nothing was written.
C20_LedgerUnavailable ==
    [][\A r \in Runners :
          (cmd[r] = "run" /\ pc[r] \in {"init", "verify"} /\ ~dbUp /\ pc'[r] # pc[r])
          => /\ pc'[r] = "exited"
             /\ exitCode'[r] = Some(1)
             /\ err'[r] = ConnectionError
             /\ migrations'[r] = <<>>
             /\ executed'[r] = <<>>
             /\ ledger' = ledger
             /\ effects' = effects]_vars

\* A run has ended with exit code 1 because the ledger table could not be
\* created, with script files waiting.
C20_Witness ==
    \E r \in Runners :
        /\ pc[r] = "exited" /\ cmd[r] = "run" /\ exitCode[r] = Some(1)
        /\ err[r] = ConnectionError
        /\ ~tableReady
        /\ migrations[r] = <<>>
        /\ discoverMigrations(fs[r]) # <<>>

(***************************************************************************)
(* The command line with an argument the switch has no case for.           *)
(***************************************************************************)
\* One runner process at a time, started with run, verify, status or create.
NextCli == RunnerStep(1) \/ \E c \in OtherCommands : Start(1, c)
SpecCli == InitSeq /\ [][NextCli]_vars

\* C21 (create command): a process started with `create` executes no script
\* body and changes no ledger record and no effect of a script, and when it
\* ends with exit code 0 exactly one file, the template, has been written.
C21_CreateCommand ==
    \A r \in Runners :
        cmd[r] = "create" =>
            /\ executed[r] = <<>>
            /\ ledger = start[r].ledger
            /\ effects = start[r].effects
            /\ (pc[r] = "exited" /\ exitCode[r] = Some(0)
                    => edits = start[r].edits + 1)

(***************************************************************************)
(* Script files whose bytes are no valid UTF-8.                            *)
(***************************************************************************)
\* The file values of a checkout whose authors saved scripts in an encoding
\* other than UTF-8.
ByteValues == FirstValues \cup {File(BytesFE), File(BytesFF)}

\* One runner; the two schema scripts hold any of these values.
InitBytes ==
    /\ \E f \in [Paths -> ByteValues] :
           /\ f[P1] # Absent
           /\ \A p \in Paths \ {P1, P2} : f[p] = Absent
           /\ fs = [r \in Runners |-> f]
    /\ nodeEnv = Some("production")
    /\ InitRest

NextBytes == RunnerStep(1)
SpecBytes == InitBytes /\ [][NextBytes]_vars

\* The bytes of the file discovery read for an entry.
BytesOf(r, m) == fs[r][PathOf(m)][1]

\* C22 (raw-byte fingerprint): two discovered files have the same
\* fingerprint exactly when their byte sequences are the same.
C22_RawByteFingerprint ==
    \A r \in Runners : \A i, j \in 1..Len(migrations[r]) :
        (migrations[r][i].hash = migrations[r][j].hash)
            <=> (BytesOf(r, migrations[r][i]) = BytesOf(r, migrations[r][j]))

\* The completed rows whose file is in no category directory, or is there
\* with a fingerprint other than the recorded one.
FailingRows(table, fsys) ==
    {table[i].num : i \in {k \in 1..Len(table) :
        /\ table[k].status = "completed"
        /\ \/ findMigrationFile(fsys, table[k].filename) = Null
           \/ calculateHash(Decode(fsys[findMigrationFile(fsys, table[k].filename)[1]][1]))
                 # table[k].hash}}

\* C23 (exhaustive verification): a verification step reports exactly the
\* completed rows whose file is missing or whose fingerprint differs, each
\* once, and it fails (exit code 1) exactly when it reported one.
C23_ExhaustiveVerification ==
    [][\A r \in Runners :
          (pc[r] = "verify" /\ pc'[r] # "verify" /\ dbUp)
          => /\ {reported'[r][i] : i \in 1..Len(reported'[r])}
                    = FailingRows(ledger, fs[r])
             /\ Len(reported'[r]) = Cardinality(FailingRows(ledger, fs[r]))
             /\ (pc'[r] = "exited" /\ exitCode'[r] = Some(1))
                    <=> FailingRows(ledger, fs[r]) # {}]_vars

\* A verification has failed having reported two rows, with a completed row
\* it did not report.
C23_Witness ==
    \E r \in Runners :
        /\ pc[r] = "exited" /\ exitCode[r] = Some(1)
        /\ err[r] = IntegrityFailure
        /\ Len(reported[r]) = 2
        /\ \E i \in 1..Len(ledger) :
               /\ ledger[i].status = "completed"
               /\ \A k \in 1..Len(reported[r]) : reported[r][k] # ledger[i].num

\* C24 (field presence): in every ledger state a row has an error message
\* only if it is failed, every failed row has one, and a row has an
\* execution time only if it is completed.
C24_FieldPresence ==
    \A i \in 1..Len(ledger) :
        /\ ledger[i].error # Null => ledger[i].status = "failed"
        /\ ledger[i].status = "failed" => ledger[i].error # Null
        /\ ledger[i].time # Null => ledger[i].status = "completed"

\* The statements of a process outside applyMigration.
OutsideAttempt(r) == ~InAttempt(r)

\* C25 (connection scope): a runner holds at most one client of the pool,
\* exactly one within an attempt and none outside one, whatever the outcome
\* of the attempts before; no client is released with its transaction open,
\* and no transaction is open outside an attempt.
C25_ConnectionScope ==
    \A r \in Runners :
        /\ conn[r].held <= 1
        /\ ~conn[r].leftOpen
        /\ InAttempt(r) => conn[r].held = 1
        /\ OutsideAttempt(r) => conn[r].held = 0 /\ ~tx[r].open

\* A run has ended on an execution error whose record could not be written,
\* after an attempt that succeeded, with no client held.
C25_Witness ==
    \E r \in Runners :
        /\ pc[r] = "exited" /\ cmd[r] = "run" /\ err[r] = ScriptError
        /\ ~dbUp
        /\ Len(executed[r]) = 2
        /\ ~HasRow(ledger, Current(r).number)
        /\ conn[r].held = 0

(***************************************************************************)
(* Script files that never change.                                         *)
(***************************************************************************)
\* Any file values, BytesB among them.
AnyValues == {Absent} \cup {File(b) : b \in Contents}

\* One runner with any set of schema and seed-data scripts of any content.
InitStatic ==
    /\ \E f \in [Paths -> AnyValues] :
           /\ f[P5] = Absent
           /\ fs = [r \in Runners |-> f]
    /\ nodeEnv = Some("production")
    /\ InitRest

NextStatic == RunnerStep(1)
SpecStatic == InitStatic /\ [][NextStatic]_vars

\* The discovered scripts of a checkout have pairwise distinct numbers.
DistinctNumbers(fsys) ==
    LET ms == discoverMigrations(fsys)
    IN \A i, j \in 1..Len(ms) : ms[i].number = ms[j].number => i = j

\* C26 as stated (no false tamper alarms): with pairwise distinct sequence
\* numbers and files that never change, no verification fails.
C26_Original ==
    \A r \in Runners : DistinctNumbers(fs[r]) => err[r] # IntegrityFailure

\* C26 as amended (no false tamper alarms): with pairwise distinct sequence
\* numbers, pairwise distinct file names and files that never change, no
\* verification fails and none reports a row.
C26_NoFalseAlarm ==
    \A r \in Runners :
        (DistinctNumbers(fs[r]) /\ UniqueNames(fs[r]))
            => err[r] # IntegrityFailure /\ reported[r] = <<>>

\* A process has passed verification of two completed rows and a failed one
\* that earlier processes wrote, in a checkout with distinct numbers and
\* distinct file names.
C26_Witness ==
    \E r \in Runners :
        /\ DistinctNumbers(fs[r]) /\ UniqueNames(fs[r])
        /\ pc[r] = "exited" /\ exitCode[r] = Some(0)
        /\ Len(start[r].ledger) = 3
        /\ \E i, j, k \in 1..Len(start[r].ledger) :
               /\ i # j
               /\ start[r].ledger[i].status = "completed"
               /\ start[r].ledger[j].status = "completed"
               /\ start[r].ledger[k].status = "failed"

(***************************************************************************)
(* Two concurrent runners that can be killed.                              *)
(***************************************************************************)
\* The checkout both runners are deployed with: the first schema script,
\* valid or not, and a valid seed-data script or none.
LiveFiles ==
    {f \in [Paths -> FirstValues] :
        /\ f[P1] # Absent /\ f[P3] # File(BytesX)
        /\ \A p \in Paths \ {P1, P3} : f[p] = Absent}

InitLive ==
    /\ \E f \in LiveFiles : fs = [r \in Runners |-> f]
    /\ nodeEnv = Some("production")
    /\ InitRest

NextConcCrash == \E r \in Runners : RunnerStep(r) \/ Crash(r)
SpecConcCrash == InitLive /\ [][NextConcCrash]_vars

\* C27 (no persisted running record): no committed row of the ledger has
\* the status running, whatever was committed, rolled back or cut off by a
\* crash, with one runner at work or two.
C27_NoRunningRecord ==
    \A i \in 1..Len(ledger) : ledger[i].status # "running"

\* A runner was killed while its transaction held a running row, another
\* runner has committed since, and a duplicate key has been recorded.
C27_Witness ==
    \E r \in Runners : \E q \in Runners \ {r} :
        /\ pc[r] = "crashed"
        /\ killed[r].at \in {"exec", "update", "commit"}
        /\ pc[q] = "exited"
        /\ Len(ledger) >= 1

(***************************************************************************)
(* Progress: every statement a process has sent returns at last.           *)
(***************************************************************************)
\* Two runner processes; a process that can take its next step takes it.
SpecLive == InitLive /\ [][Next]_vars /\ \A r \in Runners : WF_vars(Proceed(r))

\* C28 (termination without deadlock): with one runner at work or two, every
\* started process ends at last; a runner waiting for the row of another
\* runner's transaction does not wait for ever.
C28_Termination ==
    \A r \in Runners : Running(r) ~> ~Running(r)

\* A runner waits with its INSERT for the transaction of the other runner.
C28_Witness ==
    \E r \in Runners :
        /\ pc[r] = "insert"
        /\ HeldByOther(r, Current(r).number)

\* C29 (unrecorded failure): when the execution of a script fails and the
\* failure record cannot be written, the run ends with the error of the
\* script and exit code 1 at that script, the ledger has no row of its
\* number, and the next run that gets as far as applying scripts executes
\* it again.
C29_UnrecordedFailure ==
    \A r \in Runners :
        /\ Unrecorded(r) # Null
               => /\ err[r] = ScriptError
                  /\ exitCode[r] = Some(1)
                  /\ effects[Unrecorded(r)[1]] = start[r].effects[Unrecorded(r)[1]]
        /\ (/\ prev[r].unrecorded # Null
            /\ cmd[r] = "run" /\ pc[r] = "exited"
            /\ err[r] # ConnectionError)
               => \E i \in 1..Len(executed[r]) :
                      executed[r][i] = prev[r].unrecorded[1]

\* A run has executed again the script whose failure the run before could
\* not record, and this time the failure is recorded.
C29_Witness ==
    \E r \in Runners :
        /\ prev[r].unrecorded # Null
        /\ cmd[r] = "run" /\ pc[r] = "exited"
        /\ executed[r] = <<prev[r].unrecorded[1]>>
        /\ StatusOf(ledger, Current(r).number) = "failed"

\* Entries i and j of the discovery of runner r have the same number, i
\* coming first.
Collision(r, i, j) ==
    /\ i \in 1..Len(migrations[r]) /\ j \in 1..Len(migrations[r])
    /\ i < j
    /\ migrations[r][i].number = migrations[r][j].number

\* Every script the discovery of runner r found is valid.
NoneInvalid(r) ==
    \A i \in 1..Len(migrations[r]) : ExecError(migrations[r][i].content) = Null

\* C30 (sequence-number collision): of two discovered scripts of one number
\* the one whose file name sorts first comes first; every row of the number
\* is the row of that one; the other one is never executed and raises no
\* error; and a run on valid scripts that passes verification ends with exit
\* code 0 and every discovered number completed, the later ones too.
C30_NumberCollision ==
    \A r \in Runners :
        /\ \A i, j \in 1..Len(migrations[r]) :
               Collision(r, i, j)
               => /\ StrLess(migrations[r][i].filename, migrations[r][j].filename)
                  /\ \A k \in 1..Len(executed[r]) :
                         executed[r][k] # PathOf(migrations[r][j])
                  /\ effects[PathOf(migrations[r][j])] = 0
                  /\ \A k \in 1..Len(ledger) :
                         ledger[k].num = migrations[r][i].number
                         => /\ ledger[k].filename = migrations[r][i].filename
                            /\ ledger[k].hash = migrations[r][i].hash
                  /\ err[r] # DuplicateKey
        /\ (/\ pc[r] = "exited" /\ cmd[r] = "run"
            /\ NoneInvalid(r) /\ err[r] # IntegrityFailure
            /\ migrations[r] # <<>>)
               => exitCode[r] = Some(0) /\ AllCompleted(r)

\* A run has ended with exit code 0 on two seed-data scripts of the number
\* 3001 and a later one: it executed the first and the later one, not the
\* second.
C30_Witness ==
    \E r \in Runners :
        /\ pc[r] = "exited" /\ cmd[r] = "run" /\ exitCode[r] = Some(0)
        /\ \E i, j \in 1..Len(migrations[r]) : Collision(r, i, j)
        /\ \E k \in 1..Len(executed[r]) : executed[r][k] = P4
        /\ \E k \in 1..Len(executed[r]) : executed[r][k] = P6
        /\ \A k \in 1..Len(executed[r]) : executed[r][k] # P3
        /\ Exists(fs[r], P3)
        /\ StatusOf(ledger, 3002) = "completed"

====
